---- MODULE Spec2Model ----
(***************************************************************************)
(* Clipping API: the job coordinator (app/job_manager.py), the assembly    *)
(* planner (app/clip_processor.py), segment discovery                      *)
(* (app/mediamtx_client.py) and the segment index (app/buffer_index.py).   *)
(*                                                                         *)
(* Scheduling.  Every coroutine runs on one asyncio event loop.  A task    *)
(* keeps the loop until it really suspends.  The table lock is never held  *)
(* across an await, so acquiring it never suspends; put() on the unbounded *)
(* queue never suspends; subprocess.run is a synchronous call.  The only   *)
(* real suspension is processing_queue.get() on an empty queue.  The       *)
(* variable running names the task that holds the loop.                    *)
(***************************************************************************)
EXTENDS Integers, Sequences, FiniteSets, TLC

VARIABLES
    jobs,              \* JobManager.jobs: clip_id -> ClipResponse
    processing_queue,  \* JobManager.processing_queue (FIFO of clip ids)
    workers_started,   \* JobManager._workers_started
    tasks_created,     \* number of asyncio.create_task(self._worker(..)) calls
    queue_gauge,       \* metrics_collector.clip_queue_depth (last value set)
    running,           \* the task holding the event loop, or NoTask
    spc,               \* position of each submit_job call
    wpc,               \* position of each worker task
    clip_id,           \* _worker's local clip_id (0: not yet bound)
    owned,             \* the id a worker dequeued and has not finished (0: none)
    clips,             \* process_clip's local clips
    proc,              \* the transcoder child process of a worker
    result,            \* <<success, result>> of process_clip
    manifests,         \* concat_*.txt files that exist in the working directory
    provenance,        \* number of provenance records per job
    outcome,           \* how the transcoder invocation of a job ended (history)
    faults,            \* number of faults raised so far
    got,               \* what the last get_job call of a client returned
    access,            \* the job-table access made by the last step
    call,              \* input of a segment-index or planning call
    ret                \* result of a segment-index or planning call

vars == <<jobs, processing_queue, workers_started, tasks_created, queue_gauge,
          running, spc, wpc, clip_id, owned, clips, proc, result, manifests,
          provenance, outcome, faults, got, access, call, ret>>

coordVars == <<jobs, processing_queue, workers_started, tasks_created,
               queue_gauge, running, spc, wpc, clip_id, owned, clips, proc,
               result, manifests, provenance, outcome, faults, got, access>>

indexVars == <<call, ret>>

----------------------------------------------------------------------------
(* Bounds *)

MaxJobs == 2
MaxFaults == 1

(* Program constants *)

max_concurrent_jobs == 3
LeadSeconds == 15
TrailSeconds == 5
DefaultSegmentSeconds == 20
MinSegmentSeconds == 5
SecondsPerMB == 5

JobIds == 1..MaxJobs
WorkerIds == 0..(max_concurrent_jobs - 1)

NoTask == <<"none", 0>>
SubmitTask(s) == <<"submit", s>>
WorkerTask(w) == <<"worker", w>>
ClientTask(id) == <<"client", id>>

None == "None"
PENDING == "pending"
PROCESSING == "processing"
DONE == "done"
FAILED == "failed"
Terminal == {DONE, FAILED}

----------------------------------------------------------------------------
(* Segment discovery: the camera directories and find_clips *)

Cameras == {"cam1"}
Timestamps == {10, 30, 100}

\* glob order of each camera directory.  A file: its name, the start time
\* inferred for it, its size in MB, whether its name carries a timestamp
\* (named) and the first os.stat of the scan that finds it gone ("never":
\* the file stays readable).
ClipDir(camera) ==
    IF camera = "cam1"
    THEN << [filename |-> "b_20", start |-> 20, mb |-> 4, named |-> TRUE,
             gone |-> "never"],
            [filename |-> "a_00", start |-> 0,  mb |-> 4, named |-> TRUE,
             gone |-> "never"],
            [filename |-> "c_40", start |-> 40, mb |-> 4, named |-> TRUE,
             gone |-> "never"] >>
    ELSE IF camera = "cam2"
    THEN << [filename |-> "d_00", start |-> 0, mb |-> 0, named |-> TRUE,
             gone |-> "never"] >>
    ELSE << >>

Max(a, b) == IF a >= b THEN a ELSE b

SetMax(S) == CHOOSE x \in S : \A y \in S : y <= x
SetMin(S) == CHOOSE x \in S : \A y \in S : x <= y
Elements(seq) == {seq[i] : i \in 1..Len(seq)}

EstimatedDuration(mb) ==
    IF mb > 0 THEN Max(MinSegmentSeconds, mb * SecondsPerMB)
    ELSE DefaultSegmentSeconds

\* the three places of _extract_clip_info that read the file's metadata:
\* os.stat for the mtime (line 103), os.stat for the size estimate
\* (line 117), os.path.getsize (line 137).  A file gone before one of them
\* is gone at the later ones.
StatFails(file, place) ==
    CASE file.gone = "never" -> FALSE
      [] file.gone = "before_mtime" -> TRUE
      [] file.gone = "before_estimate" -> place \in {"estimate", "getsize"}
      [] file.gone = "before_getsize" -> place = "getsize"

\* _extract_clip_info: info is <<clip_info>> when the file overlaps the
\* window and << >> for None; raised when an exception leaves the function
extract_clip_info(file, start_time, end_time) ==
    LET clip_start_time == file.start
        estimated_duration ==
            IF StatFails(file, "estimate") THEN DefaultSegmentSeconds
            ELSE EstimatedDuration(file.mb)
        clip_end_time == clip_start_time + estimated_duration
    IN IF ~file.named /\ StatFails(file, "mtime")
       THEN [raised |-> FALSE, info |-> << >>]
       ELSE IF clip_end_time >= start_time /\ clip_start_time <= end_time
       THEN (IF StatFails(file, "getsize")
             THEN [raised |-> TRUE, info |-> << >>]
             ELSE [raised |-> FALSE,
                   info |-> << [filename |-> file.filename,
                                start_time |-> clip_start_time,
                                end_time |-> clip_end_time] >>])
       ELSE [raised |-> FALSE, info |-> << >>]

\* list.sort(key = start_time): a stable insertion sort
RECURSIVE InsertByStart(_, _)
InsertByStart(sorted, c) ==
    IF sorted = << >> THEN << c >>
    ELSE IF c.start_time < Head(sorted).start_time THEN << c >> \o sorted
    ELSE << Head(sorted) >> \o InsertByStart(Tail(sorted), c)

RECURSIVE SortByStart(_)
SortByStart(s) ==
    IF s = << >> THEN << >>
    ELSE InsertByStart(SortByStart(SubSeq(s, 1, Len(s) - 1)), s[Len(s)])

\* lines 43-48: the loop over the files; an exception of
\* _extract_clip_info is not caught and ends the loop
RECURSIVE ScanFiles(_, _, _)
ScanFiles(files, start_time, end_time) ==
    IF files = << >> THEN [raised |-> FALSE, clips |-> << >>]
    ELSE LET first == extract_clip_info(Head(files), start_time, end_time)
             rest == ScanFiles(Tail(files), start_time, end_time)
         IN IF first.raised \/ rest.raised
            THEN [raised |-> TRUE, clips |-> << >>]
            ELSE [raised |-> FALSE, clips |-> first.info \o rest.clips]

\* find_clips lines 40-52 without the sort of line 51
scan_directory_NoSort(files, start_time, end_time) ==
    ScanFiles(files, start_time, end_time)

\* find_clips lines 40-52 over the files of the camera directory
scan_directory(files, start_time, end_time) ==
    LET scanned == ScanFiles(files, start_time, end_time)
    IN [raised |-> scanned.raised, clips |-> SortByStart(scanned.clips)]

find_clips(camera, start_time, end_time) ==
    scan_directory(ClipDir(camera), start_time, end_time)

----------------------------------------------------------------------------
(* Job coordinator *)

CanRun(t) == running = NoTask \/ running = t

\* Workers that have not dequeued anything yet are in the same state and
\* interchangeable: of these the one created first is the one taken.
FirstFresh(w) ==
    clip_id[w] = 0 => \A v \in WorkerIds : v < w => clip_id[v] # 0

NewJob(camera, timestamp) ==
    [status |-> PENDING,
     camera_id |-> camera,
     start_time |-> timestamp - LeadSeconds,
     end_time |-> timestamp + TrailSeconds,
     download_url |-> None,
     error_message |-> None,
     completed_at |-> FALSE]

\* JobManager.get_job: <<record>> or <<>> for None
get_job(id) == IF id \in DOMAIN jobs THEN << jobs[id] >> ELSE << >>

Truthy(s) == s # None /\ s # ""

\* JobManager.update_job_status: the job table after the call
update_job_status(id, status, download_url, error_message) ==
    IF id \in DOMAIN jobs
    THEN [jobs EXCEPT ![id] =
             [@ EXCEPT !.status = status,
                       !.download_url =
                           IF Truthy(download_url) THEN download_url ELSE @,
                       !.error_message =
                           IF Truthy(error_message) THEN error_message ELSE @,
                       !.completed_at =
                           IF status \in Terminal THEN TRUE ELSE @]]
    ELSE jobs

NoResult == <<FALSE, None>>

\* an access to the job table or to one of its records: the function that
\* makes it, and whether self._lock is held meanwhile
NoAccess == <<"none", TRUE>>
Locked(site) == <<site, TRUE>>
Unlocked(site) == <<site, FALSE>>

CoordAtRest ==
    /\ jobs = << >>
    /\ processing_queue = << >>
    /\ workers_started = FALSE
    /\ tasks_created = 0
    /\ queue_gauge = 0
    /\ running = NoTask
    /\ spc = [s \in JobIds |-> "idle"]
    /\ wpc = [w \in WorkerIds |-> "absent"]
    /\ clip_id = [w \in WorkerIds |-> 0]
    /\ owned = [w \in WorkerIds |-> 0]
    /\ clips = [w \in WorkerIds |-> << >>]
    /\ proc = [w \in WorkerIds |-> "none"]
    /\ result = [w \in WorkerIds |-> NoResult]
    /\ manifests = {}
    /\ provenance = [j \in JobIds |-> 0]
    /\ outcome = [j \in JobIds |-> "none"]
    /\ faults = 0
    /\ got = << >>
    /\ access = NoAccess

Init == CoordAtRest /\ call = << >> /\ ret = << >>

----------------------------------------------------------------------------
(* submit_job, one action per statement group; the whole call runs without *)
(* suspending                                                              *)

\* submit_job without line 37: the record is never put in the table
SubmitInsert_NoStore(s, camera, timestamp) ==
    /\ spc[s] = "idle"
    /\ \A r \in JobIds : r < s => spc[r] # "idle"
    /\ running = NoTask
    /\ running' = SubmitTask(s)
    /\ spc' = [spc EXCEPT ![s] = "put"]
    /\ UNCHANGED <<jobs, processing_queue, workers_started, tasks_created,
                   queue_gauge, wpc, clip_id, owned, clips, proc, result,
                   manifests, provenance, outcome, faults, got>>
    /\ UNCHANGED indexVars
    /\ access' = NoAccess

\* lines 20-37: uuid4, the window, the record, and its insertion under the lock
SubmitInsert(s, camera, timestamp) ==
    /\ spc[s] = "idle"
    /\ \A r \in JobIds : r < s => spc[r] # "idle"
    /\ running = NoTask
    /\ running' = SubmitTask(s)
    /\ jobs' = jobs @@ (s :> NewJob(camera, timestamp))
    /\ spc' = [spc EXCEPT ![s] = "put"]
    /\ UNCHANGED <<processing_queue, workers_started, tasks_created,
                   queue_gauge, wpc, clip_id, owned, clips, proc, result,
                   manifests, provenance, outcome, faults, got>>
    /\ UNCHANGED indexVars
    /\ access' = Locked("submit_job")

\* line 39
SubmitPut(s) ==
    /\ spc[s] = "put"
    /\ running = SubmitTask(s)
    /\ processing_queue' = Append(processing_queue, s)
    /\ spc' = [spc EXCEPT ![s] = "depth"]
    /\ UNCHANGED <<jobs, workers_started, tasks_created, queue_gauge, running,
                   wpc, clip_id, owned, clips, proc, result, manifests,
                   provenance, outcome, faults, got>>
    /\ UNCHANGED indexVars
    /\ access' = NoAccess

\* lines 40-41
SubmitDepth(s) ==
    /\ spc[s] = "depth"
    /\ running = SubmitTask(s)
    /\ queue_gauge' = Len(processing_queue)
    /\ spc' = [spc EXCEPT ![s] = "start_workers"]
    /\ UNCHANGED <<jobs, processing_queue, workers_started, tasks_created,
                   running, wpc, clip_id, owned, clips, proc, result,
                   manifests, provenance, outcome, faults, got>>
    /\ UNCHANGED indexVars
    /\ access' = NoAccess

\* _start_workers without line 74: the flag is never set
start_workers_NoFlag ==
    /\ tasks_created' = tasks_created + max_concurrent_jobs
    /\ wpc' = [w \in WorkerIds |-> "get"]
    /\ UNCHANGED workers_started

\* _start_workers, lines 70-77: the tasks are created, they run later
start_workers ==
    IF workers_started
    THEN UNCHANGED <<workers_started, tasks_created, wpc>>
    ELSE /\ workers_started' = TRUE
         /\ tasks_created' = tasks_created + max_concurrent_jobs
         /\ wpc' = [w \in WorkerIds |-> "get"]

\* lines 43-47
SubmitStart(s) ==
    /\ spc[s] = "start_workers"
    /\ running = SubmitTask(s)
    /\ IF ~workers_started
       THEN start_workers
       ELSE UNCHANGED <<workers_started, tasks_created, wpc>>
    /\ spc' = [spc EXCEPT ![s] = "returned"]
    /\ running' = NoTask
    /\ UNCHANGED <<jobs, processing_queue, queue_gauge, clip_id, owned, clips,
                   proc, result, manifests, provenance, outcome,
                   faults, got>>
    /\ UNCHANGED indexVars
    /\ access' = NoAccess

\* a client's GET /clips/{clip_id}: get_job runs when the loop is free
GetJob(id) ==
    /\ running = NoTask
    /\ running' = ClientTask(id)
    /\ got' = << id, get_job(id) >>
    /\ UNCHANGED <<jobs, processing_queue, workers_started, tasks_created,
                   queue_gauge, spc, wpc, clip_id, owned, clips, proc,
                   result, manifests, provenance, outcome, faults>>
    /\ UNCHANGED indexVars
    /\ access' = Locked("get_job")

\* the response is sent and the request task ends
GetReturn(id) ==
    /\ running = ClientTask(id)
    /\ running' = NoTask
    /\ got' = << >>
    /\ UNCHANGED <<jobs, processing_queue, workers_started, tasks_created,
                   queue_gauge, spc, wpc, clip_id, owned, clips, proc,
                   result, manifests, provenance, outcome, faults>>
    /\ UNCHANGED indexVars
    /\ access' = NoAccess

\* get_job_count, lines 123-124: a plain method that reads len(self.jobs);
\* any task may call it, the value it returns is not kept
GetJobCount ==
    /\ running = NoTask
    /\ access' = Unlocked("get_job_count")
    /\ UNCHANGED <<jobs, processing_queue, workers_started, tasks_created,
                   queue_gauge, running, spc, wpc, clip_id, owned, clips,
                   proc, result, manifests, provenance, outcome, faults, got>>
    /\ UNCHANGED indexVars

----------------------------------------------------------------------------
(* _worker, lines 79-118.  Locals that are assigned again before their     *)
(* next use (job, success, result, clips) are reset when an iteration      *)
(* ends; clip_id keeps its value across iterations, as in the code.        *)

\* what no worker step changes
outsideWorker == <<workers_started, tasks_created, spc, got, call, ret>>

\* the job record a worker holds (job = await self.get_job(clip_id))
JobOf(w) == jobs[clip_id[w]]

\* concat_{Path(clips[0]['file_path']).name}.txt
ConcatName(cl) == cl[1].filename

\* lines 80-84, queue empty: the worker waits and the loop is free
WorkerSuspend(w) ==
    /\ wpc[w] = "get"
    /\ running = WorkerTask(w)
    /\ processing_queue = << >>
    /\ running' = NoTask
    /\ UNCHANGED <<jobs, processing_queue, queue_gauge, wpc, clip_id, owned,
                   clips, proc, result, manifests, provenance,
                   outcome, faults>>
    /\ UNCHANGED outsideWorker
    /\ access' = NoAccess

\* lines 80-84, queue not empty
WorkerGet(w) ==
    /\ wpc[w] = "get"
    /\ CanRun(WorkerTask(w))
    /\ FirstFresh(w)
    /\ processing_queue # << >>
    /\ running' = WorkerTask(w)
    /\ clip_id' = [clip_id EXCEPT ![w] = Head(processing_queue)]
    /\ owned' = [owned EXCEPT ![w] = Head(processing_queue)]
    /\ processing_queue' = Tail(processing_queue)
    /\ wpc' = [wpc EXCEPT ![w] = "depth"]
    /\ UNCHANGED <<jobs, queue_gauge, clips, proc, result, manifests, provenance, outcome, faults>>
    /\ UNCHANGED outsideWorker
    /\ access' = NoAccess

\* _worker without line 85: the gauge is not pushed after a dequeue
WorkerDepth_NoPush(w) ==
    /\ wpc[w] = "depth"
    /\ running = WorkerTask(w)
    /\ wpc' = [wpc EXCEPT ![w] = "load"]
    /\ UNCHANGED <<jobs, processing_queue, queue_gauge, running, clip_id,
                   owned, clips, proc, result, manifests, provenance, outcome,
                   faults>>
    /\ UNCHANGED outsideWorker
    /\ access' = NoAccess

\* line 85
WorkerDepth(w) ==
    /\ wpc[w] = "depth"
    /\ running = WorkerTask(w)
    /\ queue_gauge' = Len(processing_queue)
    /\ wpc' = [wpc EXCEPT ![w] = "load"]
    /\ UNCHANGED <<jobs, processing_queue, running, clip_id, owned, clips,
                   proc, result, manifests, provenance, outcome,
                   faults>>
    /\ UNCHANGED outsideWorker
    /\ access' = NoAccess

\* lines 87-89
WorkerLoad(w) ==
    /\ wpc[w] = "load"
    /\ running = WorkerTask(w)
    /\ IF get_job(clip_id[w]) = << >>
       THEN /\ wpc' = [wpc EXCEPT ![w] = "get"]
            /\ owned' = [owned EXCEPT ![w] = 0]
       ELSE /\ wpc' = [wpc EXCEPT ![w] = "set_processing"]
            /\ UNCHANGED owned
    /\ UNCHANGED <<jobs, processing_queue, queue_gauge, running, clip_id,
                   clips, proc, result, manifests, provenance,
                   outcome, faults>>
    /\ UNCHANGED outsideWorker
    /\ access' = Locked("get_job")

\* lines 91-92
WorkerSetProcessing(w) ==
    /\ wpc[w] = "set_processing"
    /\ running = WorkerTask(w)
    /\ jobs' = update_job_status(clip_id[w], PROCESSING, None, None)
    /\ wpc' = [wpc EXCEPT ![w] = "import"]
    /\ UNCHANGED <<processing_queue, queue_gauge, running, clip_id, owned,
                   clips, proc, result, manifests, provenance,
                   outcome, faults>>
    /\ UNCHANGED outsideWorker
    /\ access' = Locked("update_job_status")

\* line 94
WorkerImport(w) ==
    /\ wpc[w] = "import"
    /\ running = WorkerTask(w)
    /\ wpc' = [wpc EXCEPT ![w] = "find"]
    /\ UNCHANGED <<jobs, processing_queue, queue_gauge, running, clip_id,
                   owned, clips, proc, result, manifests, provenance,
                   outcome, faults>>
    /\ UNCHANGED outsideWorker
    /\ access' = NoAccess

----------------------------------------------------------------------------
(* process_clip and _process_mediamtx_clips (app/clip_processor.py), run   *)
(* by the worker at line 95 of job_manager.py without suspending           *)

ProcessingFailed == <<FALSE, "FFmpeg processing failed">>
NoClipsFound == <<FALSE, "No clips found for camera in time range">>
DownloadUrl == "/videos/output.mp4"

\* the single-file command built without max(0, ..): the seek offset is
\* the plain difference
build_command_NoClamp(clips_, start_time, end_time) ==
    IF Len(clips_) = 1
    THEN [mode |-> "trim",
          input |-> clips_[1].filename,
          start_offset |-> start_time - clips_[1].start_time,
          duration |-> end_time - Max(start_time, clips_[1].start_time)]
    ELSE [mode |-> "concat",
          concat_file |-> ConcatName(clips_),
          manifest |-> [i \in 1..Len(clips_) |-> clips_[i].filename]]

\* _process_mediamtx_clips lines 64-104: the transcoder command, and in
\* concatenation mode the lines written to the manifest
build_command(clips_, start_time, end_time) ==
    IF Len(clips_) = 1
    THEN [mode |-> "trim",
          input |-> clips_[1].filename,
          start_offset |-> Max(0, start_time - clips_[1].start_time),
          duration |-> end_time - Max(start_time, clips_[1].start_time)]
    ELSE [mode |-> "concat",
          concat_file |-> ConcatName(clips_),
          manifest |-> [i \in 1..Len(clips_) |-> clips_[i].filename]]

\* process_clip lines 48-49 and _generate_annotations lines 159-178: the
\* provenance record
generate_annotations(clips_, start_time, end_time) ==
    [requested_start |-> start_time,
     requested_end |-> end_time,
     actual_start |-> SetMin({clips_[i].start_time : i \in 1..Len(clips_)}),
     actual_end |-> SetMax({clips_[i].end_time : i \in 1..Len(clips_)}),
     source_clips |-> clips_]

\* str(e) of the exception that left find_clips
ScanError == "[Errno 2] No such file or directory"

\* process_clip lines 29-36, and lines 56-59 when find_clips raises
WorkerFind(w) ==
    /\ wpc[w] = "find"
    /\ running = WorkerTask(w)
    /\ LET found == find_clips(JobOf(w).camera_id, JobOf(w).start_time,
                               JobOf(w).end_time)
       IN IF found.raised
          THEN /\ result' = [result EXCEPT ![w] = <<FALSE, ScanError>>]
               /\ wpc' = [wpc EXCEPT ![w] = "finish"]
               /\ UNCHANGED clips
          ELSE IF found.clips = << >>
          THEN /\ result' = [result EXCEPT ![w] = NoClipsFound]
               /\ wpc' = [wpc EXCEPT ![w] = "finish"]
               /\ UNCHANGED clips
          ELSE /\ clips' = [clips EXCEPT ![w] = found.clips]
               /\ wpc' = [wpc EXCEPT ![w] = "build"]
               /\ UNCHANGED result
    /\ UNCHANGED <<jobs, processing_queue, queue_gauge, running, clip_id,
                   owned, proc, manifests, provenance, outcome,
                   faults>>
    /\ UNCHANGED outsideWorker
    /\ access' = Unlocked("process_clip")

\* _process_mediamtx_clips lines 63-104: the command, and in concatenation
\* mode the manifest file
WorkerBuild(w) ==
    /\ wpc[w] = "build"
    /\ running = WorkerTask(w)
    /\ LET cmd == build_command(clips[w], JobOf(w).start_time,
                                JobOf(w).end_time)
       IN manifests' = IF cmd.mode = "concat"
                       THEN manifests \cup {cmd.concat_file}
                       ELSE manifests
    /\ wpc' = [wpc EXCEPT ![w] = "launch"]
    /\ UNCHANGED <<jobs, processing_queue, queue_gauge, running, clip_id,
                   owned, clips, proc, result, provenance, outcome, faults>>
    /\ UNCHANGED outsideWorker
    /\ access' = Unlocked("process_clip")

\* line 110: the child process starts; it will exit with 0, exit with a
\* non-zero code, or hang
WorkerLaunch(w, behaviour) ==
    /\ wpc[w] = "launch"
    /\ running = WorkerTask(w)
    /\ behaviour \in {"exit_zero", "exit_nonzero", "hang"}
    /\ proc' = [proc EXCEPT ![w] = behaviour]
    /\ wpc' = [wpc EXCEPT ![w] = "wait"]
    /\ UNCHANGED <<jobs, processing_queue, queue_gauge, running, clip_id,
                   owned, clips, result, manifests, provenance,
                   outcome, faults>>
    /\ UNCHANGED outsideWorker
    /\ access' = NoAccess

\* lines 110, 123-126: the child cannot be launched; process_clip line 45
WorkerLaunchFailure(w) ==
    /\ wpc[w] = "launch"
    /\ running = WorkerTask(w)
    /\ outcome' = [outcome EXCEPT ![clip_id[w]] = "launch_failure"]
    /\ result' = [result EXCEPT ![w] = ProcessingFailed]
    /\ wpc' = [wpc EXCEPT ![w] = "finish"]
    /\ UNCHANGED <<jobs, processing_queue, queue_gauge, running, clip_id,
                   owned, clips, proc, manifests, provenance, faults>>
    /\ UNCHANGED outsideWorker
    /\ access' = NoAccess

\* lines 110-118: the child exited within the timeout
WorkerProcExit(w) ==
    /\ wpc[w] = "wait"
    /\ running = WorkerTask(w)
    /\ proc[w] \in {"exit_zero", "exit_nonzero"}
    /\ outcome' = [outcome EXCEPT ![clip_id[w]] = proc[w]]
    /\ wpc' = [wpc EXCEPT ![w] = "cleanup"]
    /\ UNCHANGED <<jobs, processing_queue, queue_gauge, running, clip_id,
                   owned, clips, proc, result, manifests, provenance,
                   faults>>
    /\ UNCHANGED outsideWorker
    /\ access' = NoAccess

\* subprocess.run without timeout=300: a hanging child is waited for forever
WorkerProcTimeout_NoTimeout(w) ==
    /\ wpc[w] = "wait"
    /\ running = WorkerTask(w)
    /\ proc[w] = "hang"
    /\ UNCHANGED vars

\* lines 114, 119-122: the timeout expires, subprocess.run kills the child
\* and raises TimeoutExpired; process_clip line 45
WorkerProcTimeout(w) ==
    /\ wpc[w] = "wait"
    /\ running = WorkerTask(w)
    /\ proc[w] = "hang"
    /\ outcome' = [outcome EXCEPT ![clip_id[w]] = "timeout"]
    /\ proc' = [proc EXCEPT ![w] = "none"]
    /\ result' = [result EXCEPT ![w] = ProcessingFailed]
    /\ wpc' = [wpc EXCEPT ![w] = "finish"]
    /\ UNCHANGED <<jobs, processing_queue, queue_gauge, running, clip_id,
                   owned, clips, manifests, provenance, faults>>
    /\ UNCHANGED outsideWorker
    /\ access' = NoAccess

\* the manifest removed only in the returncode == 0 branch
WorkerCleanup_OnlyOnSuccess(w) ==
    /\ wpc[w] = "cleanup"
    /\ running = WorkerTask(w)
    /\ manifests' = IF Len(clips[w]) > 1 /\ proc[w] = "exit_zero"
                    THEN manifests \ {ConcatName(clips[w])}
                    ELSE manifests
    /\ IF proc[w] = "exit_zero"
       THEN /\ wpc' = [wpc EXCEPT ![w] = "annotate"]
            /\ UNCHANGED result
       ELSE /\ wpc' = [wpc EXCEPT ![w] = "finish"]
            /\ result' = [result EXCEPT ![w] = ProcessingFailed]
    /\ proc' = [proc EXCEPT ![w] = "none"]
    /\ UNCHANGED <<jobs, processing_queue, queue_gauge, running, clip_id,
                   owned, clips, provenance, outcome, faults>>
    /\ UNCHANGED outsideWorker
    /\ access' = NoAccess

\* the return code not looked at: every exit counts as success
WorkerCleanup_IgnoreReturnCode(w) ==
    /\ wpc[w] = "cleanup"
    /\ running = WorkerTask(w)
    /\ manifests' = IF Len(clips[w]) > 1
                    THEN manifests \ {ConcatName(clips[w])}
                    ELSE manifests
    /\ wpc' = [wpc EXCEPT ![w] = "annotate"]
    /\ proc' = [proc EXCEPT ![w] = "none"]
    /\ UNCHANGED <<jobs, processing_queue, queue_gauge, running, clip_id,
                   owned, clips, result, provenance, outcome, faults>>
    /\ UNCHANGED outsideWorker
    /\ access' = NoAccess

\* lines 128-143, and process_clip lines 44-45
WorkerCleanup(w) ==
    /\ wpc[w] = "cleanup"
    /\ running = WorkerTask(w)
    /\ manifests' = IF Len(clips[w]) > 1
                    THEN manifests \ {ConcatName(clips[w])}
                    ELSE manifests
    /\ IF proc[w] = "exit_zero"
       THEN /\ wpc' = [wpc EXCEPT ![w] = "annotate"]
            /\ UNCHANGED result
       ELSE /\ wpc' = [wpc EXCEPT ![w] = "finish"]
            /\ result' = [result EXCEPT ![w] = ProcessingFailed]
    /\ proc' = [proc EXCEPT ![w] = "none"]
    /\ UNCHANGED <<jobs, processing_queue, queue_gauge, running, clip_id,
                   owned, clips, provenance, outcome, faults>>
    /\ UNCHANGED outsideWorker
    /\ access' = NoAccess

\* process_clip lines 47-54: the provenance record is written
WorkerAnnotate(w) ==
    /\ wpc[w] = "annotate"
    /\ running = WorkerTask(w)
    /\ provenance' = [provenance EXCEPT ![clip_id[w]] = @ + 1]
    /\ result' = [result EXCEPT ![w] = <<TRUE, DownloadUrl>>]
    /\ wpc' = [wpc EXCEPT ![w] = "finish"]
    /\ UNCHANGED <<jobs, processing_queue, queue_gauge, running, clip_id,
                   owned, clips, proc, manifests, outcome, faults>>
    /\ UNCHANGED outsideWorker
    /\ access' = Unlocked("_generate_annotations")

\* process_clip lines 51, 56-59: writing the record raises (before the first
\* file or after it), the exception is caught and str(e) returned
WorkerAnnotateFail(w, partial, msg) ==
    /\ wpc[w] = "annotate"
    /\ running = WorkerTask(w)
    /\ faults < MaxFaults
    /\ faults' = faults + 1
    /\ provenance' = [provenance EXCEPT ![clip_id[w]] =
                         IF partial THEN @ + 1 ELSE @]
    /\ result' = [result EXCEPT ![w] = <<FALSE, msg>>]
    /\ wpc' = [wpc EXCEPT ![w] = "finish"]
    /\ UNCHANGED <<jobs, processing_queue, queue_gauge, running, clip_id,
                   owned, clips, proc, manifests, outcome>>
    /\ UNCHANGED outsideWorker
    /\ access' = Unlocked("_generate_annotations")

----------------------------------------------------------------------------
(* _worker, the end of an iteration and the exception handler *)

WorkerError == "Worker error: fault"
AnnotationErrors == {"", "No space left on device"}

\* an iteration that ends without lines 97-105: the status is left as it is
WorkerFinish_NoUpdate(w) ==
    /\ wpc[w] = "finish"
    /\ running = WorkerTask(w)
    /\ wpc' = [wpc EXCEPT ![w] = "task_done"]
    /\ UNCHANGED <<jobs, processing_queue, queue_gauge, running, clip_id,
                   owned, clips, proc, result, manifests, provenance,
                   outcome, faults>>
    /\ UNCHANGED outsideWorker
    /\ access' = NoAccess

\* lines 97-107
WorkerFinish(w) ==
    /\ wpc[w] = "finish"
    /\ running = WorkerTask(w)
    /\ jobs' = IF result[w][1]
               THEN update_job_status(clip_id[w], DONE, result[w][2], None)
               ELSE update_job_status(clip_id[w], FAILED, None, result[w][2])
    /\ wpc' = [wpc EXCEPT ![w] = "task_done"]
    /\ UNCHANGED <<processing_queue, queue_gauge, running, clip_id, owned,
                   clips, proc, result, manifests, provenance,
                   outcome, faults>>
    /\ UNCHANGED outsideWorker
    /\ access' = Locked("update_job_status")

\* line 109, and back to the head of the loop
WorkerTaskDone(w) ==
    /\ wpc[w] = "task_done"
    /\ running = WorkerTask(w)
    /\ owned' = [owned EXCEPT ![w] = 0]
    /\ clips' = [clips EXCEPT ![w] = << >>]
    /\ result' = [result EXCEPT ![w] = NoResult]
    /\ wpc' = [wpc EXCEPT ![w] = "get"]
    /\ UNCHANGED <<jobs, processing_queue, queue_gauge, running, clip_id,
                   proc, manifests, provenance, outcome, faults>>
    /\ UNCHANGED outsideWorker
    /\ access' = NoAccess

\* The statements of the try body outside process_clip that may raise: the
\* queue, the table, the import of the processor, the status updates and
\* task_done.  The statement that raises has no effect.
FaultPoints == {"get", "load", "set_processing", "import", "finish",
                "task_done"}

\* line 111: an exception leaves the try body
WorkerFault(w) ==
    /\ wpc[w] \in FaultPoints
    /\ CanRun(WorkerTask(w))
    /\ FirstFresh(w)
    /\ faults < MaxFaults
    /\ faults' = faults + 1
    /\ running' = WorkerTask(w)
    /\ wpc' = [wpc EXCEPT ![w] = "handler"]
    /\ UNCHANGED <<jobs, processing_queue, queue_gauge, clip_id, owned, clips,
                   proc, result, manifests, provenance, outcome>>
    /\ UNCHANGED outsideWorker
    /\ access' = NoAccess

\* a handler that marks the job and then re-raises: the worker task ends
WorkerHandler_Reraise(w) ==
    /\ wpc[w] = "handler"
    /\ running = WorkerTask(w)
    /\ jobs' = IF clip_id[w] # 0
               THEN update_job_status(clip_id[w], FAILED, None, WorkerError)
               ELSE jobs
    /\ owned' = [owned EXCEPT ![w] = 0]
    /\ clips' = [clips EXCEPT ![w] = << >>]
    /\ result' = [result EXCEPT ![w] = NoResult]
    /\ wpc' = [wpc EXCEPT ![w] = "dead"]
    /\ running' = NoTask
    /\ UNCHANGED <<processing_queue, queue_gauge, clip_id, proc, manifests,
                   provenance, outcome, faults>>
    /\ UNCHANGED outsideWorker
    /\ access' = IF clip_id[w] # 0 THEN Locked("update_job_status")
                 ELSE NoAccess

\* lines 112-118, and back to the head of the loop
WorkerHandler(w) ==
    /\ wpc[w] = "handler"
    /\ running = WorkerTask(w)
    /\ jobs' = IF clip_id[w] # 0
               THEN update_job_status(clip_id[w], FAILED, None, WorkerError)
               ELSE jobs
    /\ owned' = [owned EXCEPT ![w] = 0]
    /\ clips' = [clips EXCEPT ![w] = << >>]
    /\ result' = [result EXCEPT ![w] = NoResult]
    /\ wpc' = [wpc EXCEPT ![w] = "get"]
    /\ UNCHANGED <<processing_queue, queue_gauge, running, clip_id, proc,
                   manifests, provenance, outcome, faults>>
    /\ UNCHANGED outsideWorker
    /\ access' = IF clip_id[w] # 0 THEN Locked("update_job_status")
                 ELSE NoAccess

----------------------------------------------------------------------------
(* The job coordinator's specification *)

WorkerStep(w) ==
    \/ WorkerSuspend(w)
    \/ WorkerGet(w)
    \/ WorkerDepth(w)
    \/ WorkerLoad(w)
    \/ WorkerSetProcessing(w)
    \/ WorkerImport(w)
    \/ WorkerFind(w)
    \/ WorkerBuild(w)
    \/ \E b \in {"exit_zero", "exit_nonzero", "hang"} : WorkerLaunch(w, b)
    \/ WorkerLaunchFailure(w)
    \/ WorkerProcExit(w)
    \/ WorkerProcTimeout(w)
    \/ WorkerCleanup(w)
    \/ WorkerAnnotate(w)
    \/ WorkerFinish(w)
    \/ WorkerTaskDone(w)
    \/ WorkerHandler(w)

SubmitStep(s) ==
    \/ SubmitPut(s)
    \/ SubmitDepth(s)
    \/ SubmitStart(s)

Next ==
    \/ \E s \in JobIds, c \in Cameras, t \in Timestamps : SubmitInsert(s, c, t)
    \/ \E s \in JobIds : SubmitStep(s)
    \/ \E id \in JobIds : GetJob(id)
    \/ \E id \in JobIds : GetReturn(id)
    \/ GetJobCount
    \/ \E w \in WorkerIds : WorkerStep(w)
    \/ \E w \in WorkerIds : WorkerFault(w)
    \/ \E w \in WorkerIds, partial \in BOOLEAN, m \in AnnotationErrors :
           WorkerAnnotateFail(w, partial, m)

Spec == Init /\ [][Next]_vars

\* The task that holds the loop goes on to its next statement, and the
\* loop's ready queue is first-in first-out, so a worker that is ready again
\* and again is run.  Faults and new requests are not forced.
LiveSpec ==
    /\ Init
    /\ [][Next]_vars
    /\ WF_vars(\E s \in JobIds : SubmitStep(s))
    /\ WF_vars(\E id \in JobIds : GetReturn(id))
    /\ SF_vars(\E w \in WorkerIds : WorkerStep(w))

----------------------------------------------------------------------------
(* Segment index (app/buffer_index.py): find_segments and snap_to_keyframe, *)
(* pure functions of the loaded index.  Times are whole seconds.            *)

MaxSegments == 2
MaxDuration == 4
MaxKeyframes == 3

\* sorted(relevant_segments, key = start): a stable insertion sort
RECURSIVE InsertSegment(_, _)
InsertSegment(sorted, seg) ==
    IF sorted = << >> THEN << seg >>
    ELSE IF seg.start < Head(sorted).start THEN << seg >> \o sorted
    ELSE << Head(sorted) >> \o InsertSegment(Tail(sorted), seg)

RECURSIVE SortSegments(_)
SortSegments(s) ==
    IF s = << >> THEN << >>
    ELSE InsertSegment(SortSegments(SubSeq(s, 1, Len(s) - 1)), s[Len(s)])

\* the overlap test with strict comparisons
Overlaps_Strict(segment, start_time, end_time) ==
    segment.start < end_time /\ segment.end > start_time

\* line 96
Overlaps(segment, start_time, end_time) ==
    segment.start <= end_time /\ segment.end >= start_time

\* lines 94-97
RECURSIVE RelevantSegments(_, _, _)
RelevantSegments(segments, start_time, end_time) ==
    IF segments = << >> THEN << >>
    ELSE (IF Overlaps(Head(segments), start_time, end_time)
          THEN << Head(segments) >> ELSE << >>)
         \o RelevantSegments(Tail(segments), start_time, end_time)

\* BufferIndex.find_segments; buffer_data maps a camera to its segment list
find_segments(buffer_data, camera_id, start_time, end_time) ==
    IF camera_id \notin DOMAIN buffer_data
    THEN << >>
    ELSE SortSegments(RelevantSegments(buffer_data[camera_id], start_time,
                                       end_time))

Abs(x) == IF x < 0 THEN -x ELSE x

\* min(seq, key = f) returns the first element whose key is least
RECURSIVE ClosestTo(_, _)
ClosestTo(keyframes, relative_time) ==
    IF Len(keyframes) = 1 THEN keyframes[1]
    ELSE LET rest == ClosestTo(Tail(keyframes), relative_time)
         IN IF Abs(Head(keyframes) - relative_time) <= Abs(rest - relative_time)
            THEN Head(keyframes) ELSE rest

\* snap_to_keyframe without lines 112-119: the nearest keyframe whatever
\* prefer_earlier says
snap_to_keyframe_Nearest(segment, timestamp, prefer_earlier) ==
    LET segment_duration == segment.end - segment.start
        relative_time == timestamp - segment.start
        closest_keyframe == ClosestTo(segment.keyframes, relative_time)
    IN IF relative_time < 0 THEN << segment.start, 0 >>
       ELSE IF relative_time > segment_duration
       THEN << segment.end, segment.keyframes[Len(segment.keyframes)] >>
       ELSE << segment.start + closest_keyframe, closest_keyframe >>

\* BufferIndex.snap_to_keyframe: <<snapped_time, offset>>
snap_to_keyframe(segment, timestamp, prefer_earlier) ==
    LET segment_duration == segment.end - segment.start
        relative_time == timestamp - segment.start
        closest_keyframe == ClosestTo(segment.keyframes, relative_time)
        earlier_keyframes == {kf \in Elements(segment.keyframes) :
                                 kf <= relative_time}
        later_keyframes == {kf \in Elements(segment.keyframes) :
                               kf >= relative_time}
        chosen ==
            IF prefer_earlier /\ closest_keyframe > relative_time
            THEN (IF earlier_keyframes # {} THEN SetMax(earlier_keyframes)
                  ELSE closest_keyframe)
            ELSE IF ~prefer_earlier /\ closest_keyframe < relative_time
            THEN (IF later_keyframes # {} THEN SetMin(later_keyframes)
                  ELSE closest_keyframe)
            ELSE closest_keyframe
    IN IF relative_time < 0 THEN << segment.start, 0 >>
       ELSE IF relative_time > segment_duration
       THEN << segment.end, segment.keyframes[Len(segment.keyframes)] >>
       ELSE << segment.start + chosen, chosen >>

\* keyframe lists that satisfy the Segment invariant for a given duration
KeyframeLists(duration) ==
    {k \in UNION {[1..n -> 0..duration] : n \in 1..MaxKeyframes} :
        /\ k[1] = 0
        /\ \A i \in 1..(Len(k) - 1) : k[i] <= k[i + 1]}

\* segments that satisfy the Segment invariant
SnapSegments ==
    {[start |-> st, end |-> st + d, keyframes |-> k] :
        st \in 0..1, d \in 1..MaxDuration, k \in KeyframeLists(MaxDuration)}

SnapCalls ==
    {c \in [op : {"snap"}, segment : SnapSegments,
            timestamp : (0 - 2)..(MaxDuration + 3), prefer_earlier : BOOLEAN] :
        c.segment.keyframes[Len(c.segment.keyframes)]
            <= c.segment.end - c.segment.start}

\* the index as loaded from the store: any order, any start < end
IndexTimes == {0, 9, 10, 20, 30}

IndexSegments ==
    {[start |-> a, end |-> b, keyframes |-> << 0 >>] :
        a \in IndexTimes, b \in IndexTimes}

IndexLists ==
    UNION {[1..n -> {g \in IndexSegments : g.start < g.end}] :
              n \in 0..MaxSegments}

FindCalls ==
    [op : {"find"}, buffer_data : {("camera1" :> l) : l \in IndexLists},
     camera_id : {"camera1", "camera9"},
     start_time : IndexTimes, end_time : IndexTimes]

SnapCall ==
    /\ ret = << >>
    /\ call.op = "snap"
    /\ ret' = << snap_to_keyframe(call.segment, call.timestamp,
                                  call.prefer_earlier) >>
    /\ UNCHANGED call
    /\ UNCHANGED coordVars

FindCall ==
    /\ ret = << >>
    /\ call.op = "find"
    /\ ret' = << find_segments(call.buffer_data, call.camera_id,
                               call.start_time, call.end_time) >>
    /\ UNCHANGED call
    /\ UNCHANGED coordVars

SnapInit == CoordAtRest /\ call \in SnapCalls /\ ret = << >>
SnapSpec == SnapInit /\ [][SnapCall]_vars

FindInit == CoordAtRest /\ call \in FindCalls /\ ret = << >>
FindSpec == FindInit /\ [][FindCall]_vars

----------------------------------------------------------------------------
(* Discovery and planning as a function of the camera directory and the     *)
(* window: find_clips, the command of _process_mediamtx_clips and, for a    *)
(* transcoder that exits with 0, the record of _generate_annotations        *)

MaxFiles == 3

FileNames == << "f1", "f2", "f3", "f4", "f5" >>
PlanStarts == {0, 30, 60}
PlanSizes == {0, 6}
PlanWindows == {w \in {10, 40} \X {20, 50, 100} : w[1] < w[2]}

HealthyFiles ==
    [start : PlanStarts, mb : PlanSizes, named : {TRUE}, gone : {"never"}]

FaultyFiles ==
    [start : PlanStarts, mb : PlanSizes, named : BOOLEAN,
     gone : {"before_mtime", "before_estimate", "before_getsize"}]

\* the i-th file of the glob gets the i-th name
WithNames(d) ==
    [i \in 1..Len(d) |->
        [filename |-> FileNames[i], start |-> d[i].start, mb |-> d[i].mb,
         named |-> d[i].named, gone |-> d[i].gone]]

\* directories of at most MaxFiles files of which at most one cannot be read
PlanDirs ==
    UNION {{WithNames(d) : d \in [1..n -> HealthyFiles]}
           \cup {WithNames([d EXCEPT ![k] = f]) :
                    d \in [1..n -> HealthyFiles], k \in 1..n,
                    f \in FaultyFiles} :
           n \in 0..MaxFiles}

PlanCalls ==
    {[op |-> "plan", files |-> d, start_time |-> w[1], end_time |-> w[2]] :
        d \in PlanDirs, w \in PlanWindows}

\* process_clip lines 29-54 up to the transcoder's exit with 0
plan_clip(files, start_time, end_time) ==
    LET found == scan_directory(files, start_time, end_time)
    IN IF found.raised \/ found.clips = << >>
       THEN [found |-> found, cmd |-> << >>, annotation |-> << >>]
       ELSE [found |-> found,
             cmd |-> << build_command(found.clips, start_time, end_time) >>,
             annotation |-> << generate_annotations(found.clips, start_time,
                                                    end_time) >>]

PlanCall ==
    /\ ret = << >>
    /\ call.op = "plan"
    /\ ret' = << plan_clip(call.files, call.start_time, call.end_time) >>
    /\ UNCHANGED call
    /\ UNCHANGED coordVars

PlanInit == CoordAtRest /\ call \in PlanCalls /\ ret = << >>
PlanSpec == PlanInit /\ [][PlanCall]_vars

----------------------------------------------------------------------------
(* Properties of the job coordinator *)

InQueue(j) == \E i \in 1..Len(processing_queue) : processing_queue[i] = j

LiveWorkers == Cardinality({w \in WorkerIds : wpc[w] \notin {"absent", "dead"}})

\* C1: once a job has status DONE or FAILED no later update_job_status call
\* changes its status, whatever the interleaving of submit, get and the
\* workers and wherever a worker fault is raised.
C1_TerminalStatusIsFinal ==
    [][\A j \in DOMAIN jobs :
          jobs[j].status \in Terminal => jobs'[j].status = jobs[j].status]_vars

\* C3: once submit_job has returned an id, and until a worker dequeues it,
\* get_job returns the record (not None) with status PENDING; every id in the
\* queue is in the job table, so a worker never dequeues an absent id.
C3_SubmittedJobIsRetrievable ==
    /\ \A j \in JobIds : InQueue(j) => j \in DOMAIN jobs
    /\ \A j \in JobIds :
          (spc[j] = "returned" /\ InQueue(j)) =>
              (get_job(j) # << >> /\ get_job(j)[1].status = PENDING)
    /\ (got # << >> /\ spc[got[1]] = "returned") =>
          /\ got[2] # << >>
          /\ InQueue(got[1]) => got[2][1].status = PENDING
    /\ \A w \in WorkerIds :
          wpc[w] \in {"depth", "load"} => clip_id[w] \in DOMAIN jobs

\* C3 witness: a client got the record of a returned, still queued job
C3_Witness ==
    /\ got # << >>
    /\ spc[got[1]] = "returned"
    /\ InQueue(got[1])
    /\ got[2] # << >>

\* C4: when a fault leaves the try body while a worker processes a dequeued
\* job, the handler marks that job, and no other, FAILED with the diagnostic
\* message, and the worker goes back to dequeuing; the number of live
\* workers never decreases.
C4_FaultFailsOwnJobAndWorkerSurvives ==
    [][/\ \A w \in WorkerIds :
             (wpc[w] = "handler" /\ owned[w] # 0 /\ wpc'[w] # "handler") =>
                 /\ jobs'[owned[w]].status = FAILED
                 /\ jobs'[owned[w]].error_message = WorkerError
                 /\ \A j \in DOMAIN jobs : j # owned[w] => jobs'[j] = jobs[j]
                 /\ wpc'[w] = "get"
       /\ LiveWorkers' >= LiveWorkers]_vars

\* C4 witness: a worker is back at the queue after its handler failed the job
\* it was processing
C4_Witness ==
    \E w \in WorkerIds :
        /\ wpc[w] = "get"
        /\ clip_id[w] # 0
        /\ owned[w] = 0
        /\ jobs[clip_id[w]].status = FAILED
        /\ jobs[clip_id[w]].error_message = WorkerError
        /\ LiveWorkers = max_concurrent_jobs

\* submit_job calls that have returned
Submitted == {s \in JobIds : spc[s] = "returned"}

\* no task is between a queue operation and the push that follows it
GaugePushed ==
    /\ \A s \in JobIds : spc[s] \notin {"put", "depth"}
    /\ \A w \in WorkerIds : wpc[w] # "depth"

\* C8: after every enqueue and every dequeue the gauge value pushed to the
\* metrics collector is the number of ids in the queue (get_queue_depth());
\* after N submit_job calls and before any dequeue it is N.
C8_QueueDepthGauge ==
    /\ GaugePushed => queue_gauge = Len(processing_queue)
    /\ (running = NoTask /\ \A w \in WorkerIds : clip_id[w] = 0) =>
           queue_gauge = Cardinality(Submitted)

\* C8 witness: two calls returned, nothing dequeued, the gauge reads 2
C8_Witness ==
    /\ Cardinality(Submitted) = 2
    /\ \A w \in WorkerIds : clip_id[w] = 0
    /\ running = NoTask
    /\ queue_gauge = 2

\* C2: under fair scheduling, and with every transcoder invocation ending
\* by exit or by the 300-second timeout, every submitted job eventually
\* has status DONE or FAILED; a job whose transcoder hangs becomes FAILED.
C2_EveryJobTerminates ==
    \A j \in JobIds :
        /\ (j \in DOMAIN jobs) ~> (j \in DOMAIN jobs /\ jobs[j].status \in Terminal)
        /\ (\E w \in WorkerIds : owned[w] = j /\ proc[w] = "hang")
              ~> (j \in DOMAIN jobs /\ jobs[j].status = FAILED)

\* C2 witness: a job whose transcoder hung until the timeout is FAILED and
\* its worker is back at the queue
C2_Witness ==
    \E j \in DOMAIN jobs :
        /\ outcome[j] = "timeout"
        /\ jobs[j].status = FAILED
        /\ \A w \in WorkerIds : owned[w] # j /\ wpc[w] = "get"

\* a worker between the return of _process_mediamtx_clips and the end of
\* the iteration, its invocation having been in concatenation mode
ReturnedFromConcat(w) ==
    /\ wpc[w] \in {"annotate", "finish", "task_done", "handler"}
    /\ Len(clips[w]) > 1

\* C5: in concatenation mode, once _process_mediamtx_clips has returned after
\* the transcoder exited, with code zero or not, the manifest is gone.
C5_ManifestRemovedAfterExit ==
    \A w \in WorkerIds :
        (ReturnedFromConcat(w) /\ outcome[owned[w]] \in {"exit_zero", "exit_nonzero"})
            => ConcatName(clips[w]) \notin manifests

\* C5 witness: a concatenation whose transcoder exited non-zero has returned
C5_Witness ==
    \E w \in WorkerIds :
        /\ wpc[w] = "finish"
        /\ Len(clips[w]) > 1
        /\ outcome[owned[w]] = "exit_nonzero"
        /\ result[w] = ProcessingFailed
        /\ manifests = {}

\* C6: in concatenation mode no manifest of the invocation remains once
\* _process_mediamtx_clips has returned, on any outcome, timeout and launch
\* failure included.
C6_ManifestRemovedOnEveryOutcome ==
    \A w \in WorkerIds :
        ReturnedFromConcat(w) => ConcatName(clips[w]) \notin manifests

FailureModes == {"exit_nonzero", "timeout", "launch_failure"}

\* C7: for each transcoder failure mode process_clip returns the explicit
\* failure (False, "FFmpeg processing failed"), the worker records the job
\* FAILED with a non-empty error_message, and download_url is never set.
C7_TranscoderFailureIsRecorded ==
    \A j \in DOMAIN jobs :
        outcome[j] \in FailureModes =>
            /\ jobs[j].download_url = None
            /\ \A w \in WorkerIds :
                  (owned[w] = j /\ wpc[w] = "finish") => result[w] = ProcessingFailed
            /\ \A w \in WorkerIds :
                  (owned[w] = j /\ wpc[w] = "task_done") =>
                      jobs[j].error_message = ProcessingFailed[2]
            /\ (\A w \in WorkerIds : owned[w] # j \/ wpc[w] = "task_done") =>
                  (jobs[j].status = FAILED /\ Truthy(jobs[j].error_message))

\* C7 witness: one job failed by a launch failure and another by a timeout,
\* both recorded
C7_Witness ==
    \E j, k \in DOMAIN jobs :
        /\ outcome[j] = "launch_failure"
        /\ outcome[k] = "timeout"
        /\ \A i \in {j, k} :
              /\ jobs[i].status = FAILED
              /\ jobs[i].error_message = ProcessingFailed[2]
              /\ jobs[i].download_url = None
        /\ \A w \in WorkerIds : owned[w] = 0

\* C13: a job is DONE only if a provenance record was written for it; a
\* record is written at most once per job and only after the transcoder
\* exited with 0; a job for which a record was written is never FAILED.
C13_ProvenanceOnlyForSuccessfulJobs ==
    \A j \in DOMAIN jobs :
        /\ jobs[j].status = DONE => provenance[j] >= 1
        /\ provenance[j] <= 1
        /\ provenance[j] >= 1 => outcome[j] = "exit_zero"
        /\ provenance[j] >= 1 => jobs[j].status # FAILED

\* C14: whatever the number and the interleaving of submit_job calls, the
\* worker tasks ever created number max_concurrent_jobs, created by the
\* first call that reaches _start_workers, and none before.
C14_WorkersStartedOnce ==
    /\ tasks_created \in {0, max_concurrent_jobs}
    /\ workers_started <=> tasks_created = max_concurrent_jobs
    /\ Submitted # {} => tasks_created = max_concurrent_jobs

\* C14 witness: two submit_job calls have returned and three tasks exist
C14_Witness ==
    /\ Cardinality(Submitted) = 2
    /\ workers_started
    /\ tasks_created = max_concurrent_jobs
    /\ LiveWorkers = max_concurrent_jobs

ProcessingJobs == {j \in DOMAIN jobs : jobs[j].status = PROCESSING}

C16_OtherWorkerRunsDuringTranscode ==
    \A w, v \in WorkerIds :
        (/\ w # v
         /\ wpc[w] = "wait"
         /\ owned[w] \in ProcessingJobs
         /\ wpc[v] = "get"
         /\ FirstFresh(v)
         /\ processing_queue # << >>) => ENABLED WorkerGet(v)

\* C17: every read and every write of the job table and of its records
\* (submit_job, get_job, update_job_status, get_job_count, the worker's
\* reads of the job record during processing) is made with the table lock
\* held.
C17_TableAccessUnderLock ==
    access # NoAccess => access[2]

\* C20: in every state that get_job can observe, completed_at is set
\* exactly when the status is DONE or FAILED, a DONE job has a download_url
\* and no error_message, and a FAILED job has an error_message (also when
\* processing gave the empty string as reason) and no download_url.
C20_TerminalFieldsConsistent ==
    \A j \in DOMAIN jobs :
        LET job == get_job(j)[1]
        IN /\ job.completed_at <=> job.status \in Terminal
           /\ job.status = DONE =>
                 (job.download_url # None /\ job.error_message = None)
           /\ job.status = FAILED =>
                 (job.error_message # None /\ job.download_url = None)

----------------------------------------------------------------------------
(* Properties of the segment index *)

\* C9: for a segment that satisfies the Segment invariant, snap_to_keyframe
\* returns an offset that is one of the segment's keyframes and a time equal
\* to segment.start + offset, in the two clamped cases too.
C9_SnapReturnsKeyframeOfSegment ==
    (ret # << >> /\ call.op = "snap") =>
        LET snapped_time == ret[1][1]
            offset == ret[1][2]
        IN /\ offset \in Elements(call.segment.keyframes)
           /\ snapped_time = call.segment.start + offset

\* number of places of a list that hold the segment g
Occurrences(list, g) == Cardinality({i \in 1..Len(list) : list[i] = g})

\* C10: find_segments returns exactly the camera's segments with
\* start <= window_end and end >= window_start (a touching boundary counts),
\* each once, in ascending order of start; for an unknown camera it returns
\* the empty sequence.
C10_FindSegmentsInclusiveOverlap ==
    (ret # << >> /\ call.op = "find") =>
        LET found == ret[1]
            known == call.camera_id \in DOMAIN call.buffer_data
        IN /\ ~known => found = << >>
           /\ known =>
                 /\ \A g \in IndexSegments :
                       Occurrences(found, g) =
                           IF g.start <= call.end_time /\ g.end >= call.start_time
                           THEN Occurrences(call.buffer_data[call.camera_id], g)
                           ELSE 0
                 /\ \A i, k \in 1..Len(found) :
                       i < k => found[i].start <= found[k].start

\* C10 witness: window [10,20] over the stored list [20,30], [0,9] finds
\* the segment [20,30] alone
C10_Witness ==
    /\ ret # << >>
    /\ call.op = "find"
    /\ call.camera_id = "camera1"
    /\ call.start_time = 10
    /\ call.end_time = 20
    /\ call.buffer_data["camera1"] =
           << [start |-> 20, end |-> 30, keyframes |-> << 0 >>],
              [start |-> 0, end |-> 9, keyframes |-> << 0 >>] >>
    /\ ret[1] = << [start |-> 20, end |-> 30, keyframes |-> << 0 >>] >>

\* a snap_to_keyframe call, with its result, for a timestamp inside the
\* segment
SnappedInside ==
    /\ ret # << >>
    /\ call.op = "snap"
    /\ call.segment.start <= call.timestamp
    /\ call.timestamp <= call.segment.end

\* the keyframes of the call's segment at or before, and at or after, the
\* timestamp
KeyframesBefore ==
    {kf \in Elements(call.segment.keyframes) :
        kf <= call.timestamp - call.segment.start}

KeyframesAfter ==
    {kf \in Elements(call.segment.keyframes) :
        kf >= call.timestamp - call.segment.start}

\* C18 as stated: for a timestamp T inside the segment, prefer_earlier
\* gives the largest keyframe <= relative and a time <= T, and
\* prefer_earlier = false gives the smallest keyframe >= relative and a
\* time >= T.
C18_SnapNeverExcludesFootage ==
    SnappedInside =>
        IF call.prefer_earlier
        THEN /\ ret[1][1] <= call.timestamp
             /\ ret[1][2] = SetMax(KeyframesBefore)
        ELSE /\ ret[1][1] >= call.timestamp
             /\ KeyframesAfter # {}
             /\ ret[1][2] = SetMin(KeyframesAfter)

\* C18 amended: for a timestamp T inside the segment, prefer_earlier gives
\* the largest keyframe <= relative and a time <= T; prefer_earlier = false
\* gives the smallest keyframe >= relative and a time >= T when the segment
\* has a keyframe >= relative, and otherwise its last keyframe, a time < T.
C18_SnapDirectionWhenKeyframeExists ==
    SnappedInside =>
        IF call.prefer_earlier
        THEN /\ ret[1][1] <= call.timestamp
             /\ ret[1][2] = SetMax(KeyframesBefore)
        ELSE IF KeyframesAfter # {}
        THEN /\ ret[1][1] >= call.timestamp
             /\ ret[1][2] = SetMin(KeyframesAfter)
        ELSE /\ ret[1][1] < call.timestamp
             /\ ret[1][2] = SetMax(Elements(call.segment.keyframes))

\* C18 witness: keyframes 0, 1, 4 and relative 2 with prefer_earlier =
\* false: the nearest keyframe 1 is replaced by 4
C18_Witness ==
    /\ SnappedInside
    /\ ~call.prefer_earlier
    /\ call.segment.keyframes = << 0, 1, 4 >>
    /\ call.timestamp - call.segment.start = 2
    /\ ret[1] = << call.segment.start + 4, 4 >>

----------------------------------------------------------------------------
(* Properties of discovery and planning *)

\* the range inferred for a file that can be read
FileEnd(f) == f.start + EstimatedDuration(f.mb)

\* places of the directory whose file can be read and whose inferred range
\* intersects the window (a touching boundary counts)
Candidates(c) ==
    {i \in 1..Len(c.files) :
        /\ c.files[i].gone = "never"
        /\ c.files[i].start <= c.end_time
        /\ FileEnd(c.files[i]) >= c.start_time}

AllReadable(c) == \A i \in 1..Len(c.files) : c.files[i].gone = "never"

\* C11: with exactly one candidate the planner uses trim mode; the seek
\* offset and the duration are never negative; a candidate that starts
\* after the window start is read from its beginning for window_end minus
\* its start; a candidate that contains the window is read from
\* window_start - start for window_end - window_start.
C11_SingleCandidateIsTrimmed ==
    (ret # << >> /\ call.op = "plan" /\ AllReadable(call)
       /\ Cardinality(Candidates(call)) = 1) =>
        LET f == call.files[CHOOSE i \in Candidates(call) : TRUE]
            cmd == ret[1].cmd
        IN /\ cmd # << >>
           /\ cmd[1].mode = "trim"
           /\ cmd[1].input = f.filename
           /\ cmd[1].start_offset >= 0
           /\ cmd[1].duration >= 0
           /\ f.start > call.start_time =>
                 /\ cmd[1].start_offset = 0
                 /\ cmd[1].duration = call.end_time - f.start
           /\ (f.start <= call.start_time /\ FileEnd(f) >= call.end_time) =>
                 /\ cmd[1].start_offset = call.start_time - f.start
                 /\ cmd[1].duration = call.end_time - call.start_time

\* C11 witness: the file [0,30] alone and the window [10,20]: trim from 10
\* for 10 seconds
C11_Witness ==
    /\ ret # << >>
    /\ call.op = "plan"
    /\ Len(call.files) = 1
    /\ call.files[1].start = 0
    /\ call.files[1].mb = 6
    /\ call.start_time = 10
    /\ call.end_time = 20
    /\ ret[1].cmd = << [mode |-> "trim", input |-> "f1", start_offset |-> 10,
                        duration |-> 10] >>

\* the file names of a list of clip infos, in the list's order
NamesOf(clips_) == [i \in 1..Len(clips_) |-> clips_[i].filename]

\* C12: with two or more candidates the planner uses concatenation mode;
\* the manifest and the provenance record's source list name exactly the
\* candidates, each once, in ascending order of start time; the actual
\* window of the provenance record is [least start, greatest end] of the
\* candidates.
C12_ConcatListsCandidatesInOrder ==
    (ret # << >> /\ call.op = "plan" /\ AllReadable(call)
       /\ Cardinality(Candidates(call)) >= 2) =>
        LET cmd == ret[1].cmd
            annotation == ret[1].annotation
            wanted == {call.files[i].filename : i \in Candidates(call)}
        IN /\ cmd # << >>
           /\ annotation # << >>
           /\ cmd[1].mode = "concat"
           /\ NamesOf(annotation[1].source_clips) = cmd[1].manifest
           /\ Len(cmd[1].manifest) = Cardinality(Candidates(call))
           /\ Elements(cmd[1].manifest) = wanted
           /\ \A i, k \in 1..Len(annotation[1].source_clips) :
                 i < k => annotation[1].source_clips[i].start_time
                              <= annotation[1].source_clips[k].start_time
           /\ \A i \in Candidates(call) :
                 /\ annotation[1].actual_start <= call.files[i].start
                 /\ annotation[1].actual_end >= FileEnd(call.files[i])
           /\ \E i \in Candidates(call) :
                 annotation[1].actual_start = call.files[i].start
           /\ \E i \in Candidates(call) :
                 annotation[1].actual_end = FileEnd(call.files[i])

\* C12 witness: three 30-second files globbed as [30,60], [0,30], [60,90]
\* and the window [10,50]: the manifest lists the second file, then the
\* first, and the actual window is [0,60]
C12_Witness ==
    /\ ret # << >>
    /\ call.op = "plan"
    /\ Len(call.files) = 3
    /\ \A i \in 1..3 : call.files[i].mb = 6 /\ call.files[i].gone = "never"
    /\ call.files[1].start = 30
    /\ call.files[2].start = 0
    /\ call.files[3].start = 60
    /\ call.start_time = 10
    /\ call.end_time = 50
    /\ ret[1].cmd # << >>
    /\ ret[1].cmd[1].mode = "concat"
    /\ ret[1].cmd[1].manifest = << "f2", "f1" >>
    /\ NamesOf(ret[1].annotation[1].source_clips) = << "f2", "f1" >>
    /\ ret[1].annotation[1].actual_start = 0
    /\ ret[1].annotation[1].actual_end = 60

\* C19: when one file of the directory cannot be read (its os.stat or
\* getsize fails), find_clips still returns normally, and its result is
\* every other file whose range intersects the window, each once, sorted by
\* inferred start.
C19_UnreadableFileIsSkipped ==
    (ret # << >> /\ call.op = "plan") =>
        LET found == ret[1].found
        IN /\ ~found.raised
           /\ Elements(NamesOf(found.clips)) =
                  {call.files[i].filename : i \in Candidates(call)}
           /\ Len(found.clips) = Cardinality(Candidates(call))
           /\ \A i, k \in 1..Len(found.clips) :
                 i < k => found.clips[i].start_time
                              <= found.clips[k].start_time

====
